---- MODULE Spec2Model ----
(***************************************************************************)
(* Request-admission and resilience core of ai-devops-platform:            *)
(*   - the circuit breaker of mcp-aws-server (utils/circuit_breaker.py),   *)
(*   - the chat pipeline of llm-security-gateway (gateway/main.py) with    *)
(*     its rate limiter, policy engine, DLP engine, model router and       *)
(*     audit logger.                                                       *)
(* The two subsystems share no state; each has its own specification      *)
(* (BreakerSpec, Spec). LimiterSpec and RouterSpec run the rate limiter    *)
(* and the model router of the gateway on their own, called directly.      *)
(***************************************************************************)
EXTENDS Integers, Sequences, FiniteSets, TLC

(***************************************************************************)
(* Bounds of the model.                                                    *)
(***************************************************************************)
\* concurrent callers of one guarded function (coroutines on one event loop)
NCallers == 2
\* the clock runs over 0..MaxTime
MaxTime == 3
\* failure_threshold is drawn from 1..MaxThreshold at construction
MaxThreshold == 2
\* timeout is drawn from 1..MaxTimeout at construction
MaxTimeout == 2
\* the wrapped function stops raising once failure_count reaches MaxFailures
MaxFailures == 4

\* check_limit is called directly at most MaxCalls times in a behaviour
MaxCalls == 3
\* route is called while no target has MaxConsecutive failures in a row
MaxConsecutive == 6

Callers == 1..NCallers

(***************************************************************************)
(* State of one CircuitBreaker and of the coroutines inside its wrapper.   *)
(***************************************************************************)
VARIABLES
    state,              \* self.state: "CLOSED", "OPEN", "HALF_OPEN"
    failure_count,      \* self.failure_count
    last_failure_time,  \* self.last_failure_time
    failure_threshold,  \* self.failure_threshold
    timeout,            \* self.timeout
    now,                \* time.time()
    pc_call,            \* per caller: "idle", or "calling" (suspended at `await func`)
    admitted,           \* history: how the caller in flight passed the entry check
    streak,             \* history: raising calls completed since the breaker was
                        \* last Closed with failure_count 0 and nothing else
                        \* completed (-1: the run of failures is broken or over)
    ev,                 \* history: the last thing the wrapper did [kind,
                        \* from, to: the state before and after, adm,
                        \* thrown: what func raised, exc: what the wrapper
                        \* raised to its caller]
    audited             \* history: the result_status of the audit records
                        \* the last step wrote (the wrapped function is a
                        \* tool operation under @audit_log)

breaker_vars == <<state, failure_count, last_failure_time, failure_threshold,
                  timeout, now, pc_call, admitted, streak, ev, audited>>

\* State of the gateway (see the chat pipeline below).
VARIABLES
    store,          \* Redis: key -> [count, ttl] (count 0: no such key;
                    \* ttl 0: no expiry set)
    pc,             \* per request: the await chat_completion is at
    request,        \* per request: the ChatRequest [messages, model]
    is_allowed,     \* locals of chat_completion, per request
    rate_info,
    is_authorized,
    dlp_result,
    model_response,
    response_dlp,
    http,           \* per request: 0 while in progress, then the HTTP status
    body,           \* per request: ChatResponse.response of a 200
    stages,         \* history, per request: the component calls made for it
    forwarded,      \* history, per request: the messages handed to route
    rate_trace,     \* history, per request: the keys its check_limit call
                    \* incremented, in order
    oracle,         \* history, per request: what the OPA call did
    audit_trail     \* the entries the audit logger wrote

gateway_vars == <<store, pc, request, is_allowed, rate_info, is_authorized,
                  dlp_result, model_response, response_dlp, http, body, stages,
                  forwarded, rate_trace, oracle, audit_trail>>

\* State of the direct use of the rate limiter and of the model router (the
\* components called outside a chat request, as their unit tests call them).
VARIABLES
    decision,       \* what the last check_limit call returned: [allowed, info]
    lim_ev,         \* history: the last operation on the rate limiter
                    \* [kind, tokens, scopes: the keys it incremented or
                    \*  deleted, redis: Redis' outcome for each of them,
                    \*  revived: the keys it created again after they expired]
    lapsed,         \* history: the keys that expired and were not incremented
                    \* since
    ncalls,         \* history: the number of direct check_limit calls
    dispatch,       \* history: the last route call [model, adapters: the
                    \* targets whose adapter was called, ok, and of the
                    \* ModelResponse: served (its model), content, cost]
    consecutive     \* history: per target, its adapter failures in a row

limiter_vars == <<decision, lim_ev, lapsed, ncalls>>
router_vars == <<dispatch, consecutive>>

\* State of the components used on their own: a DLPEngine whose patterns are
\* extended at run time, the registry behind the circuit_breaker decorator,
\* and the MCP server's request handler.
VARIABLES
    engine,             \* a DLPEngine: [patterns, block_patterns]
    dlp_ev,             \* history: the last call on the engine [kind, text,
                        \* mode, result: what scan returned, name]
    registered,         \* history: per name, the arguments of the latest
                        \* add_custom_pattern for it [set, regex, block]
    circuit_breakers,   \* _circuit_breakers: per key, the parameters of the
                        \* CircuitBreaker it holds (NoBreaker: no entry)
    reg_ev,             \* history: the last application of the decorator
                        \* [key, failure_threshold, timeout, outcome, held:
                        \* the entry of the key before it]
    rpc                 \* history: the last handle_request [request,
                        \* called: the tool operation awaited, outcome]

dlp_vars == <<engine, dlp_ev, registered>>
registry_vars == <<circuit_breakers, reg_ev>>
server_vars == <<rpc>>

\* State of concurrent check_limit calls on one store, and of the WebSocket
\* endpoint of the automation hub.
VARIABLES
    lpc,                \* per caller: where its check_limit is suspended
    ltokens,            \* per caller: the tokens argument of its call
    counts,             \* per caller: the locals user_count, tenant_count
                        \* and token_count (-1: not assigned yet)
    verdict,            \* per caller: "-", or what check_limit returned:
                        \* "allowed" or "rejected"
    window_base,        \* history: the user's count when the calls began
    redis_fault,        \* history: a Redis command of these calls raised
    sockets,            \* per WebSocket: [status, user_id]
    active_connections  \* manager.active_connections: per user, the
                        \* WebSocket registered (NoSocket: no entry)

conc_vars == <<lpc, ltokens, counts, verdict, window_base, redis_fault>>
ws_vars == <<sockets, active_connections>>
unit_vars == <<dlp_vars, registry_vars, server_vars, conc_vars, ws_vars>>

NoEvent ==
    [kind |-> "none", from |-> "CLOSED", to |-> "CLOSED", adm |-> "-",
     thrown |-> "", exc |-> ""]

\* the exceptions the wrapped function raises
ExceptionTypes == {"ValueError", "ClientError"}

\* CircuitBreaker.__init__
BreakerNew(threshold, tmo) ==
    /\ failure_threshold = threshold
    /\ timeout = tmo
    /\ failure_count = 0
    /\ last_failure_time = 0
    /\ state = "CLOSED"

\* the open period measured from time 0 instead of from the last failure
TimeoutElapsedSinceStart == now >= timeout

\* wrapper, line 61: the open period is over
TimeoutElapsed == now - last_failure_time >= timeout

\* a return that closes the breaker and keeps the failures counted
CountAfterSuccessKeeps(s, c) == c

\* a return that leaves the state as it is
StateAfterSuccessKeeps(s) == s

\* a successful return that closes the breaker whatever its state
StateAfterSuccessAlwaysClosed(s) == "CLOSED"

\* wrapper, lines 76-78: the state a successful return leaves
StateAfterSuccess(s) == IF s = "HALF_OPEN" THEN "CLOSED" ELSE s

\* wrapper, lines 76-79: the failure count a successful return leaves
CountAfterSuccess(s, c) == IF s = "HALF_OPEN" THEN 0 ELSE c

\* the threshold compared with > instead of >=
StateAfterFailureStrict(s, c) == IF c > failure_threshold THEN "OPEN" ELSE s

\* wrapper, lines 94-99: the state a recorded failure leaves (c: the new count)
StateAfterFailure(s, c) == IF c >= failure_threshold THEN "OPEN" ELSE s

\* a wrapper that answers every failure with its own error
ReraiseAsBreakerError(e) == "CircuitBreakerError"

\* wrapper, line 101: the bare raise hands on the exception it caught
Reraise(e) == e

\* audit wrapper and log_operation: result_status of the record written in
\* the finally clause; error_msg is the message of the Exception caught
\* ("" stands for None: none was caught)
AuditStatus(error_msg) == IF error_msg = "" THEN "success" ELSE "error"

\* a rejection that restarts the open period
LastFailureAfterRejectRestarts(t) == now

\* wrapper, lines 64-69: the rejecting branch assigns nothing, so
\* last_failure_time is what it was
LastFailureAfterReject(t) == t

\* wrapper, lines 59-69, the branch that raises CircuitBreakerError: the
\* wrapped function is not called and the breaker is left as it is
WrapperReject(p) ==
    /\ UNCHANGED <<gateway_vars, limiter_vars, router_vars, unit_vars>>
    /\ pc_call[p] = "idle"
    /\ state = "OPEN"
    /\ ~TimeoutElapsed
    /\ last_failure_time' = LastFailureAfterReject(last_failure_time)
    /\ ev' = [kind |-> "rejected", from |-> state, to |-> state, adm |-> "-",
              thrown |-> "", exc |-> "CircuitBreakerError"]
    /\ audited' = <<>>
    /\ UNCHANGED <<state, failure_count, failure_threshold,
                   timeout, now, pc_call, admitted, streak>>

\* wrapper, lines 59-63 and 71-73: the entry check passes (moving an Open
\* breaker whose timeout elapsed to HALF_OPEN) and the coroutine suspends in
\* `await func(...)`
WrapperEnter(p) ==
    /\ UNCHANGED <<gateway_vars, limiter_vars, router_vars, unit_vars>>
    /\ pc_call[p] = "idle"
    /\ state = "OPEN" => TimeoutElapsed
    /\ state' = IF state = "OPEN" THEN "HALF_OPEN" ELSE state
    /\ pc_call' = [pc_call EXCEPT ![p] = "calling"]
    /\ admitted' = [admitted EXCEPT ![p] =
                       IF state = "OPEN" THEN "TRIAL" ELSE state]
    /\ ev' = [kind |-> "entered", from |-> state, to |-> state',
              adm |-> admitted'[p], thrown |-> "", exc |-> ""]
    /\ audited' = <<>>
    /\ UNCHANGED <<failure_count, last_failure_time, failure_threshold,
                   timeout, now, streak>>

\* wrapper, lines 73-81: func returned; the state is read again after the await
WrapperSuccess(p) ==
    /\ UNCHANGED <<gateway_vars, limiter_vars, router_vars, unit_vars>>
    /\ pc_call[p] = "calling"
    /\ state' = StateAfterSuccess(state)
    /\ failure_count' = CountAfterSuccess(state, failure_count)
    /\ pc_call' = [pc_call EXCEPT ![p] = "idle"]
    /\ admitted' = [admitted EXCEPT ![p] = "-"]
    /\ streak' = IF state' = "CLOSED" /\ failure_count' = 0 THEN 0 ELSE -1
    /\ ev' = [kind |-> "returned", from |-> state, to |-> state',
              adm |-> admitted[p], thrown |-> "", exc |-> ""]
    /\ audited' = <<AuditStatus("")>>
    /\ UNCHANGED <<last_failure_time, failure_threshold, timeout, now>>

\* wrapper, lines 83-101: func raised; the failure is recorded and re-raised
WrapperFailure(p) ==
    /\ UNCHANGED <<gateway_vars, limiter_vars, router_vars, unit_vars>>
    /\ pc_call[p] = "calling"
    /\ failure_count < MaxFailures
    /\ failure_count' = failure_count + 1
    /\ last_failure_time' = now
    /\ state' = StateAfterFailure(state, failure_count')
    /\ pc_call' = [pc_call EXCEPT ![p] = "idle"]
    /\ admitted' = [admitted EXCEPT ![p] = "-"]
    /\ streak' = IF streak >= 0 /\ streak < failure_threshold
                 THEN streak + 1 ELSE -1
    /\ \E e \in ExceptionTypes :
         /\ ev' = [kind |-> "raised", from |-> state, to |-> state',
                   adm |-> admitted[p], thrown |-> e, exc |-> Reraise(e)]
         /\ audited' = <<AuditStatus(e)>>
    /\ UNCHANGED <<failure_threshold, timeout, now>>

\* the task of the caller is cancelled while it is suspended in
\* `await func(...)`: CancelledError is not an Exception, so the except
\* clauses of the audit wrapper (audit.py:163) and of the breaker wrapper
\* (line 83) are skipped and only the finally clause of the audit wrapper
\* runs, with error_msg still None
WrapperCancelled(p) ==
    /\ UNCHANGED <<gateway_vars, limiter_vars, router_vars, unit_vars>>
    /\ pc_call[p] = "calling"
    /\ pc_call' = [pc_call EXCEPT ![p] = "idle"]
    /\ admitted' = [admitted EXCEPT ![p] = "-"]
    /\ ev' = [kind |-> "cancelled", from |-> state, to |-> state,
              adm |-> admitted[p], thrown |-> "CancelledError",
              exc |-> "CancelledError"]
    /\ audited' = <<AuditStatus("")>>
    /\ UNCHANGED <<state, failure_count, last_failure_time, failure_threshold,
                   timeout, now, streak>>

\* time passes between two steps of the event loop
Tick ==
    /\ UNCHANGED <<gateway_vars, limiter_vars, router_vars, unit_vars>>
    /\ now < MaxTime
    /\ now' = now + 1
    /\ ev' = [kind |-> "tick", from |-> state, to |-> state, adm |-> "-",
              thrown |-> "", exc |-> ""]
    /\ audited' = <<>>
    /\ UNCHANGED <<state, failure_count, last_failure_time, failure_threshold,
                   timeout, pc_call, admitted, streak>>

(***************************************************************************)
(* LLM security gateway: the chat pipeline and the components it calls.    *)
(***************************************************************************)
\* chat requests in flight at once (one coroutine of chat_completion each)
NReq == 1

Reqs == 1..NReq

\* RateLimiter.default_limits, the tenant factor and the windows
requests_per_minute == 100
requests_per_hour == 1000
TenantFactor == 10
MinuteWindow == 60
HourWindow == 3600

\* A text is a sequence of tokens. A token stands for a piece of text of one
\* class: "hello" is plain prose, "email" and "person" are PII only the
\* entity classifier knows, and a token named like a DLP pattern is a piece
\* of text that pattern's regex matches ("password" is `password: hunter2`).
\* The <..._REDACTED> tokens are the placeholders redaction writes.
NoText == <<>>

\* DLPEngine.patterns, in dictionary order
patterns ==
    <<"credit_card", "ssn", "api_key", "aws_key", "private_key",
      "bearer_token", "password", "ip_internal">>

\* DLPEngine.block_patterns
block_patterns == {"api_key", "aws_key", "private_key", "password"}

\* the request bodies and completions the model draws from (each body is the
\* list of the contents of request.messages)
RequestBodies ==
    { << <<"hello">> >>,
      << <<"hello">>, <<"password">> >>,
      << <<"ssn", "hello">> >>,
      << <<"email">> >> }
Models == {"claude-3-sonnet", "gpt-3.5-turbo"}
Completions == { <<"hello">>, <<"hello", "email">>, <<"password">> }
\* what the POST to OPA can do: a 200 whose body is {"result": true},
\* {"result": false}, {} (the rule is undefined), not JSON, or JSON that is
\* not an object; another status; a timeout; a connection error
OracleAnswers ==
    {"allow", "deny", "no_decision", "unparsable", "not_object",
     "status_500", "timeout", "transport_error"}

RECURSIVE Join(_)
\* " ".join(contents): the contents one after the other
Join(contents) ==
    IF contents = <<>> THEN <<>> ELSE Head(contents) \o Join(Tail(contents))

\* a regex is named by the class of token it matches; the regex __init__
\* gives a built-in pattern matches the tokens named like the pattern, and
\* the regexes add_custom_pattern is given here match "ticket" or "hello"
Regexes == {"ticket", "hello"}
\* the names add_custom_pattern is given: a new one and a built-in one
CustomNames == {"ticket_id", "password"}

\* DLPEngine.__init__: self.patterns (each name with its regex, in
\* dictionary order) and self.block_patterns
DLPEngineNew ==
    [patterns |-> [i \in 1..Len(patterns) |->
                      [name |-> patterns[i], regex |-> patterns[i]]],
     block_patterns |-> block_patterns]

\* the module-level dlp_engine of the gateway
dlp_engine == DLPEngineNew

\* re.search(regex, text): a token of that regex's class occurs
PatternMatches(regex, text) == \E i \in 1..Len(text) : text[i] = regex

\* name in self.patterns
HasPattern(self, name) ==
    \E k \in 1..Len(self.patterns) : self.patterns[k].name = name

\* self.patterns[name]
RegexOf(self, name) ==
    LET k == CHOOSE k \in 1..Len(self.patterns) : self.patterns[k].name = name
    IN  self.patterns[k].regex

RECURSIVE NamesOf(_)
\* the keys of a run of self.patterns.items()
NamesOf(items) ==
    IF items = <<>> THEN <<>> ELSE <<Head(items).name>> \o NamesOf(Tail(items))

\* DLPEngine._scan_patterns: the names of the matching patterns, in order
ScanPatterns(self, text) ==
    NamesOf(SelectSeq(self.patterns,
                      LAMBDA item : PatternMatches(item.regex, text)))

\* AnalyzerEngine.analyze: the entity type the classifier gives a token
\* ("" for none)
EntityOf(tok) ==
    CASE tok = "email" -> "EMAIL_ADDRESS"
      [] tok = "person" -> "PERSON"
      [] tok = "ssn" -> "US_SSN"
      [] tok = "credit_card" -> "CREDIT_CARD"
      [] tok = "ip_internal" -> "IP_ADDRESS"
      [] OTHER -> ""

Analyze(text) == {EntityOf(text[i]) : i \in 1..Len(text)} \ {""}

\* the operators of _redact_text: the placeholder of an entity type
EntityPlaceholder(entity) ==
    CASE entity = "PERSON" -> "<NAME_REDACTED>"
      [] entity = "EMAIL_ADDRESS" -> "<EMAIL_REDACTED>"
      [] entity = "PHONE_NUMBER" -> "<PHONE_REDACTED>"
      [] entity = "CREDIT_CARD" -> "<CARD_REDACTED>"
      [] entity = "US_SSN" -> "<SSN_REDACTED>"
      [] OTHER -> "<REDACTED>"

\* f"<{pattern_name.upper()}_REDACTED>"
PatternPlaceholder(name) ==
    CASE name = "credit_card" -> "<CREDIT_CARD_REDACTED>"
      [] name = "ssn" -> "<SSN_REDACTED>"
      [] name = "api_key" -> "<API_KEY_REDACTED>"
      [] name = "aws_key" -> "<AWS_KEY_REDACTED>"
      [] name = "private_key" -> "<PRIVATE_KEY_REDACTED>"
      [] name = "bearer_token" -> "<BEARER_TOKEN_REDACTED>"
      [] name = "password" -> "<PASSWORD_REDACTED>"
      [] name = "ticket_id" -> "<TICKET_ID_REDACTED>"
      [] OTHER -> "<IP_INTERNAL_REDACTED>"

\* DLPEngine._redact_text: the entity spans first, then the regex of each
\* matched pattern in turn (a placeholder matches no regex, so a token gets
\* the placeholder of the first matched pattern whose regex matches it)
RedactText(self, text, pattern_violations) ==
    LET anonymized == [i \in 1..Len(text) |->
                          IF EntityOf(text[i]) # ""
                          THEN EntityPlaceholder(EntityOf(text[i]))
                          ELSE text[i]]
        Hits(i) == {k \in 1..Len(pattern_violations) :
                       /\ HasPattern(self, pattern_violations[k])
                       /\ RegexOf(self, pattern_violations[k]) = anonymized[i]}
        First(S) == CHOOSE k \in S : \A j \in S : k <= j
    IN  [i \in 1..Len(text) |->
            IF Hits(i) # {}
            THEN PatternPlaceholder(pattern_violations[First(Hits(i))])
            ELSE anonymized[i]]

NoScan ==
    [blocked |-> FALSE, pii_detected |-> FALSE, redacted_text |-> NoText,
     violations |-> <<>>, pii_entities |-> {}]

\* a scan that reports blocked whatever the mode
ScanBlocksInAnyMode(self, text, mode) ==
    LET pattern_violations == ScanPatterns(self, text)
    IN  [blocked |-> \E k \in 1..Len(pattern_violations) :
                         pattern_violations[k] \in self.block_patterns,
         pii_detected |-> Analyze(text) # {},
         redacted_text |-> text,
         violations |-> pattern_violations,
         pii_entities |-> Analyze(text)]

\* DLPEngine.scan
Scan(self, text, mode) ==
    LET pattern_violations == ScanPatterns(self, text)
        blocked == \E k \in 1..Len(pattern_violations) :
                       pattern_violations[k] \in self.block_patterns
        pii_results == Analyze(text)
    IN  [blocked |-> blocked /\ mode = "block",
         pii_detected |-> pii_results # {},
         redacted_text |->
             IF mode = "redact" /\ (pattern_violations # <<>> \/ pii_results # {})
             THEN RedactText(self, text, pattern_violations)
             ELSE text,
         violations |-> pattern_violations,
         pii_entities |-> pii_results]

\* DLPEngine.add_custom_pattern: the engine after the call (assigning to a
\* key the dictionary has keeps the key's place)
AddCustomPattern(self, name, pattern, block) ==
    [patterns |->
         IF HasPattern(self, name)
         THEN [k \in 1..Len(self.patterns) |->
                  IF self.patterns[k].name = name
                  THEN [name |-> name, regex |-> pattern]
                  ELSE self.patterns[k]]
         ELSE Append(self.patterns, [name |-> name, regex |-> pattern]),
     block_patterns |->
         IF block THEN self.block_patterns \cup {name} ELSE self.block_patterns]

(***************************************************************************)
(* RateLimiter                                                             *)
(***************************************************************************)
tokens_per_day == 100000
DayWindow == 86400

StoreKeys == {"user_minute", "tenant_hour", "user_tokens_day"}
RedisOutcomes == {"ok", "incr_fails", "expire_fails"}

\* an increment that answers a Redis failure with a count over every limit
IncrementCounterFailClosed(st, key, window_seconds, increment, redis) ==
    LET current == st[key].count + increment
    IN  IF redis = "incr_fails"
        THEN [store |-> st, current |-> 1000000]
        ELSE [store |-> [st EXCEPT ![key] =
                            [count |-> current,
                             ttl |-> IF current = increment
                                     THEN window_seconds ELSE @.ttl]],
              current |-> current]

\* an increment that sets the expiry every time (a sliding expiry)
IncrementCounterSliding(st, key, window_seconds, increment, redis) ==
    LET current == st[key].count + increment
    IN  IF redis = "incr_fails"
        THEN [store |-> st, current |-> 0]
        ELSE IF redis = "expire_fails"
        THEN [store |-> [st EXCEPT ![key].count = current], current |-> 0]
        ELSE [store |-> [st EXCEPT ![key] =
                            [count |-> current, ttl |-> window_seconds]],
              current |-> current]

\* an increment that reads the new count and writes nothing
IncrementCounterPeek(st, key, window_seconds, increment, redis) ==
    [store |-> st,
     current |-> IF redis = "ok" THEN st[key].count + increment ELSE 0]

\* RateLimiter._increment_counter on store st: INCR, then EXPIRE when the
\* value INCR returned equals the increment; any exception is caught and 0
\* is returned. redis says which of the two commands, if any, raises.
IncrementCounter(st, key, window_seconds, increment, redis) ==
    LET current == st[key].count + increment
        first == current = increment
    IN  IF redis = "incr_fails"
        THEN [store |-> st, current |-> 0]
        ELSE IF first /\ redis = "expire_fails"
        THEN [store |-> [st EXCEPT ![key].count = current], current |-> 0]
        ELSE [store |-> [st EXCEPT ![key] =
                            [count |-> current,
                             ttl |-> IF first THEN window_seconds ELSE @.ttl]],
              current |-> current]

\* a comparison that rejects the call that reaches the limit
ReachesOrExceeds(current, limit) == current >= limit

\* check_limit, lines 76, 90, 103: the count is over the limit
Exceeds(current, limit) == current > limit

\* a check_limit that increments the three counters before it compares
CheckLimitEager(st, tokens, ru, rt, rk) ==
    LET u == IncrementCounter(st, "user_minute", MinuteWindow, 1, ru)
        t == IncrementCounter(u.store, "tenant_hour", HourWindow, 1, rt)
        k == IncrementCounter(t.store, "user_tokens_day", DayWindow, tokens, rk)
        tenant_limit == requests_per_hour * TenantFactor
        all == IF tokens > 0 THEN k.store ELSE t.store
    IN  IF Exceeds(u.current, requests_per_minute)
        THEN [allowed |-> FALSE,
              info |-> [retry_after |-> 60, limit |-> requests_per_minute,
                        current |-> u.current],
              store |-> all, scopes |-> <<"user_minute">>]
        ELSE IF Exceeds(t.current, tenant_limit)
        THEN [allowed |-> FALSE,
              info |-> [retry_after |-> 3600, limit |-> tenant_limit,
                        current |-> t.current],
              store |-> all, scopes |-> <<"user_minute", "tenant_hour">>]
        ELSE IF tokens > 0 /\ Exceeds(k.current, tokens_per_day)
        THEN [allowed |-> FALSE,
              info |-> [retry_after |-> 86400, limit |-> tokens_per_day,
                        current |-> k.current],
              store |-> all,
              scopes |-> <<"user_minute", "tenant_hour", "user_tokens_day">>]
        ELSE [allowed |-> TRUE,
              info |-> [user_requests |-> u.current,
                        tenant_requests |-> t.current,
                        tokens_used |-> IF tokens > 0 THEN k.current ELSE 0],
              store |-> all,
              scopes |-> IF tokens > 0
                         THEN <<"user_minute", "tenant_hour", "user_tokens_day">>
                         ELSE <<"user_minute", "tenant_hour">>]

\* RateLimiter.check_limit: user per minute, then tenant per hour, then (for
\* tokens > 0) user tokens per day; ru, rt, rk are Redis' outcomes for the
\* three increments. scopes lists the keys the call incremented.
CheckLimit(st, tokens, ru, rt, rk) ==
    LET u == IncrementCounter(st, "user_minute", MinuteWindow, 1, ru)
        t == IncrementCounter(u.store, "tenant_hour", HourWindow, 1, rt)
        k == IncrementCounter(t.store, "user_tokens_day", DayWindow, tokens, rk)
        tenant_limit == requests_per_hour * TenantFactor
    IN  IF Exceeds(u.current, requests_per_minute)
        THEN [allowed |-> FALSE,
              info |-> [retry_after |-> 60, limit |-> requests_per_minute,
                        current |-> u.current],
              store |-> u.store, scopes |-> <<"user_minute">>]
        ELSE IF Exceeds(t.current, tenant_limit)
        THEN [allowed |-> FALSE,
              info |-> [retry_after |-> 3600, limit |-> tenant_limit,
                        current |-> t.current],
              store |-> t.store, scopes |-> <<"user_minute", "tenant_hour">>]
        ELSE IF tokens > 0 /\ Exceeds(k.current, tokens_per_day)
        THEN [allowed |-> FALSE,
              info |-> [retry_after |-> 86400, limit |-> tokens_per_day,
                        current |-> k.current],
              store |-> k.store,
              scopes |-> <<"user_minute", "tenant_hour", "user_tokens_day">>]
        ELSE [allowed |-> TRUE,
              info |-> [user_requests |-> u.current,
                        tenant_requests |-> t.current,
                        tokens_used |-> IF tokens > 0 THEN k.current ELSE 0],
              store |-> IF tokens > 0 THEN k.store ELSE t.store,
              scopes |-> IF tokens > 0
                         THEN <<"user_minute", "tenant_hour", "user_tokens_day">>
                         ELSE <<"user_minute", "tenant_hour">>]

(***************************************************************************)
(* PolicyEngine                                                            *)
(***************************************************************************)
\* response.status_code of an answer that is a response
StatusOf(answer) == IF answer = "status_500" THEN 500 ELSE 200

\* an evaluate that denies only on an explicit deny
EvaluateFailOpen(answer) == answer # "deny"

\* PolicyEngine.evaluate: the decision for what the OPA call did. The POST
\* raising, response.json() raising and result.get raising all end in the
\* except clause.
Evaluate(answer) ==
    IF answer \in {"timeout", "transport_error"} THEN FALSE
    ELSE IF StatusOf(answer) = 200
    THEN IF answer \in {"unparsable", "not_object"} THEN FALSE
         ELSE IF answer = "no_decision" THEN FALSE
         ELSE answer = "allow"
    ELSE FALSE

(***************************************************************************)
(* ModelRouter                                                             *)
(***************************************************************************)
FallbackModel == "gpt-3.5-turbo"
NoResponse == [content |-> NoText, model |-> "", cost |-> 0]

\* ModelRouter.pricing, USD per 1M tokens, times 10 (0.5 is 5)
pricing ==
    [target \in {"claude-3-sonnet", "claude-3-opus", "gpt-4", "gpt-3.5-turbo",
                 "local"} |->
        CASE target = "claude-3-sonnet" -> [input |-> 30, output |-> 150]
          [] target = "claude-3-opus" -> [input |-> 150, output |-> 750]
          [] target = "gpt-4" -> [input |-> 300, output |-> 600]
          [] target = "gpt-3.5-turbo" -> [input |-> 5, output |-> 15]
          [] OTHER -> [input |-> 0, output |-> 0]]

\* ModelRouter._calculate_cost, in units of 1e-7 USD
CalculateCost(model, input_tokens, output_tokens) ==
    IF model \notin DOMAIN pricing
    THEN 0
    ELSE input_tokens * pricing[model].input
             + output_tokens * pricing[model].output

\* response.usage of the provider for a completion: the tokens of the
\* prompt and of the completion
UsageOf(content) ==
    [input_tokens |-> 10 * Len(content), output_tokens |-> Len(content)]

\* ModelResponse(content=..., cost=..., model=model) of the adapter called
\* for model
AdapterResponse(model, content) ==
    [content |-> content, model |-> model,
     cost |-> CalculateCost(model, UsageOf(content).input_tokens,
                            UsageOf(content).output_tokens)]

\* the adapter route() picks for a model: model.startswith("claude"),
\* model.startswith("gpt"), model == "local"; "none" is the else branch,
\* raise ValueError("Unknown model")
AdapterOf(model) ==
    CASE model \in {"claude-3-sonnet", "claude-3-opus"} -> "_call_claude"
      [] model \in {"gpt-4", "gpt-3.5-turbo"} -> "_call_openai"
      [] model = "local" -> "_call_local"
      [] OTHER -> "none"

\* a route whose fallback answer keeps the name and the prices of the
\* requested model
RouteKeepsRequested(model, content, primary_ok, fallback_ok) ==
    IF primary_ok \/ (model # FallbackModel /\ fallback_ok)
    THEN [ok |-> TRUE, response |-> AdapterResponse(model, content)]
    ELSE [ok |-> FALSE, response |-> NoResponse]

\* ModelRouter.route: the adapter of the model is called, and on its failure
\* route("gpt-3.5-turbo") once; primary_ok and fallback_ok say whether the
\* two adapter calls succeed; a model without an adapter raises ValueError
\* inside the same try. ok = FALSE: the exception reaches the caller.
Route(model, content, primary_ok, fallback_ok) ==
    IF AdapterOf(model) # "none" /\ primary_ok
    THEN [ok |-> TRUE, response |-> AdapterResponse(model, content)]
    ELSE IF model # FallbackModel /\ fallback_ok
    THEN [ok |-> TRUE, response |-> AdapterResponse(FallbackModel, content)]
    ELSE [ok |-> FALSE, response |-> NoResponse]

(***************************************************************************)
(* chat_completion                                                         *)
(***************************************************************************)
NoInfo == [retry_after |-> 0, limit |-> 0, current |-> 0]
NoTrace == <<>>

\* the gateway after lifespan() built its components: no request yet, and a
\* store whose minute and hour counters hold one of the given counts
GatewayInit(user_counts, tenant_counts) ==
    /\ \E u \in user_counts, t \in tenant_counts :
          store = [key \in StoreKeys |->
                      CASE key = "user_minute" ->
                               [count |-> u, ttl |-> IF u > 0 THEN MinuteWindow ELSE 0]
                        [] key = "tenant_hour" ->
                               [count |-> t, ttl |-> IF t > 0 THEN HourWindow ELSE 0]
                        [] OTHER -> [count |-> 0, ttl |-> 0]]
    /\ pc = [r \in Reqs |-> "idle"]
    /\ request = [r \in Reqs |-> [messages |-> <<>>, model |-> ""]]
    /\ is_allowed = [r \in Reqs |-> FALSE]
    /\ rate_info = [r \in Reqs |-> NoInfo]
    /\ rate_trace = [r \in Reqs |-> NoTrace]
    /\ oracle = [r \in Reqs |-> ""]
    /\ is_authorized = [r \in Reqs |-> FALSE]
    /\ dlp_result = [r \in Reqs |-> NoScan]
    /\ model_response = [r \in Reqs |-> NoResponse]
    /\ response_dlp = [r \in Reqs |-> NoScan]
    /\ http = [r \in Reqs |-> 0]
    /\ body = [r \in Reqs |-> NoText]
    /\ stages = [r \in Reqs |-> <<>>]
    /\ forwarded = [r \in Reqs |-> <<>>]
    /\ audit_trail = <<>>

\* raise HTTPException(status_code): the request ends with that status
Raise(r, status_code) ==
    /\ http' = [http EXCEPT ![r] = status_code]
    /\ pc' = [pc EXCEPT ![r] = "done"]

Ran(r, stage) == stages' = [stages EXCEPT ![r] = Append(@, stage)]

\* a POST /api/v1/chat arrives
Receive(r) ==
    /\ UNCHANGED <<unit_vars, breaker_vars, limiter_vars, router_vars, rate_info, rate_trace, oracle>>
    /\ pc[r] = "idle"
    /\ \E messages \in RequestBodies, model \in Models :
           request' = [request EXCEPT ![r] = [messages |-> messages, model |-> model]]
    /\ pc' = [pc EXCEPT ![r] = "rate_limit"]
    /\ UNCHANGED <<store, is_allowed, is_authorized, dlp_result, model_response,
                   response_dlp, http, body, stages, forwarded, audit_trail>>

\* a rate-limit step that logs the rejection and goes on
AfterRateLimitNoRaise(r, d) ==
    pc' = [pc EXCEPT ![r] = "policy"] /\ UNCHANGED http

\* chat_completion, lines 169-181: the outcome of the rate-limit step for
\* the decision d of check_limit
AfterRateLimit(r, d) ==
    IF ~d.allowed
    THEN Raise(r, 429)
    ELSE pc' = [pc EXCEPT ![r] = "policy"] /\ UNCHANGED http

\* Step 1: rate limiting
RateLimitStep(r) ==
    /\ UNCHANGED <<unit_vars, breaker_vars, limiter_vars, router_vars, oracle>>
    /\ pc[r] = "rate_limit"
    /\ \E ru \in RedisOutcomes, rt \in RedisOutcomes :
         LET d == CheckLimit(store, 0, ru, rt, "ok")
         IN  /\ store' = d.store
             /\ is_allowed' = [is_allowed EXCEPT ![r] = d.allowed]
             /\ rate_info' = [rate_info EXCEPT ![r] = d.info]
             /\ rate_trace' = [rate_trace EXCEPT ![r] = d.scopes]
             /\ AfterRateLimit(r, d)
    /\ Ran(r, "rate_limit")
    /\ UNCHANGED <<request, is_authorized, dlp_result, model_response,
                   response_dlp, body, forwarded, audit_trail>>

\* Step 2: RBAC authorization, lines 184-196
PolicyStep(r) ==
    /\ UNCHANGED <<unit_vars, breaker_vars, limiter_vars, router_vars, rate_info, rate_trace>>
    /\ pc[r] = "policy"
    /\ \E answer \in OracleAnswers :
         /\ oracle' = [oracle EXCEPT ![r] = answer]
         /\ is_authorized' = [is_authorized EXCEPT ![r] = Evaluate(answer)]
         /\ IF ~Evaluate(answer)
            THEN Raise(r, 403)
            ELSE pc' = [pc EXCEPT ![r] = "dlp_in"] /\ UNCHANGED http
    /\ Ran(r, "policy")
    /\ UNCHANGED <<store, request, is_allowed, dlp_result, model_response,
                   response_dlp, body, forwarded, audit_trail>>

\* chat_completion, lines 202-205: the scan of the inbound content
ScanInbound(text) == Scan(dlp_engine, text, "redact")

\* Step 3: DLP scan of the request, lines 199-217
InboundScanStep(r) ==
    /\ UNCHANGED <<unit_vars, breaker_vars, limiter_vars, router_vars, rate_info, rate_trace, oracle>>
    /\ pc[r] = "dlp_in"
    /\ LET result == ScanInbound(Join(request[r].messages))
       IN  /\ dlp_result' = [dlp_result EXCEPT ![r] = result]
           /\ IF result.blocked
              THEN Raise(r, 400)
              ELSE pc' = [pc EXCEPT ![r] = "route"] /\ UNCHANGED http
    /\ Ran(r, "dlp_in")
    /\ UNCHANGED <<store, request, is_allowed, is_authorized, model_response,
                   response_dlp, body, forwarded, audit_trail>>

\* Step 4: model routing, lines 220-226 and 263-265: route gets the
\* messages of the request as they came in
RouteStep(r) ==
    /\ UNCHANGED <<unit_vars, breaker_vars, limiter_vars, router_vars, rate_info, rate_trace, oracle>>
    /\ pc[r] = "route"
    /\ forwarded' = [forwarded EXCEPT ![r] = request[r].messages]
    /\ \E primary_ok \in BOOLEAN, fallback_ok \in BOOLEAN, content \in Completions :
         LET res == Route(request[r].model, content, primary_ok, fallback_ok)
         IN  /\ model_response' = [model_response EXCEPT ![r] = res.response]
             /\ IF res.ok
                THEN pc' = [pc EXCEPT ![r] = "dlp_out"] /\ UNCHANGED http
                ELSE Raise(r, 500)
    /\ Ran(r, "route")
    /\ UNCHANGED <<store, request, is_allowed, is_authorized, dlp_result,
                   response_dlp, body, audit_trail>>

\* Step 5: DLP scan of the response, lines 229-235
OutboundScanStep(r) ==
    /\ UNCHANGED <<unit_vars, breaker_vars, limiter_vars, router_vars, rate_info, rate_trace, oracle>>
    /\ pc[r] = "dlp_out"
    /\ response_dlp' = [response_dlp EXCEPT ![r] =
                           Scan(dlp_engine, model_response[r].content, "redact")]
    /\ pc' = [pc EXCEPT ![r] = "audit"]
    /\ Ran(r, "dlp_out")
    /\ UNCHANGED <<store, request, is_allowed, is_authorized, dlp_result,
                   model_response, http, body, forwarded, audit_trail>>

\* ChatResponse(model=request.model, ...), line 250: the model named in the
\* response of a request that was answered
ChatResponseModel(r) == request[r].model

\* Step 6: audit logging and the response, lines 238-259
AuditStep(r) ==
    /\ UNCHANGED <<unit_vars, breaker_vars, limiter_vars, router_vars, rate_info, rate_trace, oracle>>
    /\ pc[r] = "audit"
    /\ audit_trail' = Append(audit_trail,
           [request |-> r, model |-> request[r].model, status |-> "success",
            pii_detected |-> dlp_result[r].pii_detected
                                 \/ response_dlp[r].pii_detected])
    /\ body' = [body EXCEPT ![r] =
                   IF response_dlp[r].pii_detected
                   THEN response_dlp[r].redacted_text
                   ELSE model_response[r].content]
    /\ http' = [http EXCEPT ![r] = 200]
    /\ pc' = [pc EXCEPT ![r] = "done"]
    /\ Ran(r, "audit")
    /\ UNCHANGED <<store, request, is_allowed, is_authorized, dlp_result,
                   model_response, response_dlp, forwarded>>

\* The task of the request is cancelled while chat_completion is suspended
\* in the call to OPA or to the model adapter: CancelledError is not an
\* Exception, so neither except clause of lines 261-265 handles it and the
\* coroutine ends there, with no response.
Cancel(r) ==
    /\ UNCHANGED <<unit_vars, breaker_vars, limiter_vars, router_vars, rate_info, rate_trace, oracle>>
    /\ pc[r] \in {"policy", "route"}
    /\ pc' = [pc EXCEPT ![r] = "cancelled"]
    /\ UNCHANGED <<store, request, is_allowed, is_authorized, dlp_result,
                   model_response, response_dlp, http, body, stages, forwarded,
                   audit_trail>>

(***************************************************************************)
(* The rate limiter and the model router called directly.                  *)
(***************************************************************************)
TokenAmounts == {0, 60000}

NoDecision == [allowed |-> TRUE, info |-> NoInfo]
NoLimEv ==
    [kind |-> "none", tokens |-> 0, redis |-> <<>>, scopes |-> <<>>,
     revived |-> {}]

\* a RateLimiter nobody has called yet
LimiterNew ==
    /\ decision = NoDecision
    /\ lim_ev = NoLimEv
    /\ lapsed = {}
    /\ ncalls = 0

RECURSIVE SeqToSet(_)
SeqToSet(q) == IF q = <<>> THEN {} ELSE {Head(q)} \cup SeqToSet(Tail(q))

\* await rate_limiter.check_limit(user_id, tenant, tokens)
CheckLimitCall ==
    /\ UNCHANGED <<breaker_vars, router_vars, unit_vars>>
    /\ ncalls < MaxCalls
    /\ \E tokens \in TokenAmounts,
          ru \in RedisOutcomes, rt \in RedisOutcomes, rk \in RedisOutcomes :
         LET d == CheckLimit(store, tokens, ru, rt, rk)
         IN  /\ store' = d.store
             /\ decision' = [allowed |-> d.allowed, info |-> d.info]
             /\ lim_ev' = [kind |-> "check_limit", tokens |-> tokens,
                           redis |-> SubSeq(<<ru, rt, rk>>, 1, Len(d.scopes)),
                           scopes |-> d.scopes,
                           revived |-> {key \in lapsed : d.store[key].count > 0}]
             /\ lapsed' = {key \in lapsed : d.store[key].count = 0}
    /\ ncalls' = ncalls + 1
    /\ UNCHANGED <<pc, request, is_allowed, rate_info, is_authorized,
                   dlp_result, model_response, response_dlp, http, body,
                   stages, forwarded, rate_trace, oracle, audit_trail>>

\* Redis after d seconds: a key whose TTL (set by the expire of line 142)
\* has run out is gone, the TTL of the others is d shorter; a key without
\* expiry stays
AfterSeconds(st, d) ==
    [key \in StoreKeys |->
        IF st[key].ttl = 0 THEN st[key]
        ELSE IF st[key].ttl <= d THEN [count |-> 0, ttl |-> 0]
        ELSE [count |-> st[key].count, ttl |-> st[key].ttl - d]]

\* time passes until the next expiry of a key
Elapse ==
    /\ UNCHANGED <<breaker_vars, router_vars, unit_vars>>
    /\ \E key \in StoreKeys :
         /\ store[key].ttl > 0
         /\ store' = AfterSeconds(store, store[key].ttl)
         /\ lapsed' = lapsed \cup {k \in StoreKeys :
                                      store[k].count > 0 /\ store'[k].count = 0}
         /\ lim_ev' = [NoLimEv EXCEPT !.kind = "elapse"]
    /\ UNCHANGED <<decision, ncalls>>
    /\ UNCHANGED <<pc, request, is_allowed, rate_info, is_authorized,
                   dlp_result, model_response, response_dlp, http, body,
                   stages, forwarded, rate_trace, oracle, audit_trail>>

\* the keys of everybody
AllKeys(st) == {key \in StoreKeys : st[key].count > 0}

\* redis_client.keys(f"rate_limit:user:{user_id}:*"): the keys of the user
UserKeys(st) ==
    {key \in {"user_minute", "user_tokens_day"} : st[key].count > 0}

\* await rate_limiter.reset_limits(user_id); a Redis command that raises
\* is logged and nothing is deleted
ResetLimits ==
    /\ UNCHANGED <<breaker_vars, router_vars, unit_vars>>
    /\ \E redis_ok \in BOOLEAN :
         LET keys == IF redis_ok THEN UserKeys(store) ELSE {}
         IN  /\ store' = [key \in StoreKeys |->
                             IF key \in keys THEN [count |-> 0, ttl |-> 0]
                             ELSE store[key]]
             /\ lim_ev' = [kind |-> "reset_limits", tokens |-> 0,
                           redis |-> IF redis_ok THEN <<"ok">> ELSE <<"fails">>,
                           scopes |-> SelectSeq(<<"user_minute", "user_tokens_day">>,
                                                LAMBDA key : key \in keys),
                           revived |-> {}]
    /\ UNCHANGED <<decision, lapsed, ncalls>>
    /\ UNCHANGED <<pc, request, is_allowed, rate_info, is_authorized,
                   dlp_result, model_response, response_dlp, http, body,
                   stages, forwarded, rate_trace, oracle, audit_trail>>

\* the models route is called with; no adapter serves mistral-7b
UnknownModel == "mistral-7b"
RouterModels == Models \cup {"gpt-4", UnknownModel}

NoDispatch ==
    [model |-> "", adapters |-> <<>>, ok |-> TRUE, served |-> "",
     content |-> NoText, cost |-> 0]

\* a ModelRouter nobody has called yet
RouterNew ==
    /\ dispatch = NoDispatch
    /\ consecutive = [target \in RouterModels |-> 0]

\* a route that tries the fallback a second time
AdapterCallsRetry(model, primary_ok) ==
    IF primary_ok \/ model = FallbackModel
    THEN <<model>>
    ELSE <<model, FallbackModel, FallbackModel>>

\* the adapter calls of route(model): the adapter of the model and, when it
\* raises and the model is not the fallback, the adapter of gpt-3.5-turbo;
\* for a model without an adapter, the adapter of gpt-3.5-turbo alone
AdapterCalls(model, primary_ok) ==
    IF AdapterOf(model) = "none"
    THEN <<FallbackModel>>
    ELSE IF primary_ok \/ model = FallbackModel
    THEN <<model>>
    ELSE <<model, FallbackModel>>

\* await model_router.route(model, messages)
RouteCall ==
    /\ UNCHANGED <<breaker_vars, gateway_vars, limiter_vars, unit_vars>>
    /\ \A target \in RouterModels : consecutive[target] < MaxConsecutive
    /\ \E model \in RouterModels, primary_ok \in BOOLEAN, fallback_ok \in BOOLEAN,
          content \in Completions :
         LET res == Route(model, content, primary_ok, fallback_ok)
             adapters == AdapterCalls(model, primary_ok)
         IN  /\ dispatch' = [model |-> model, adapters |-> adapters,
                             ok |-> res.ok, served |-> res.response.model,
                             content |-> res.response.content,
                             cost |-> res.response.cost]
             /\ consecutive' =
                  [target \in RouterModels |->
                      IF target = model /\ target = adapters[Len(adapters)]
                      THEN (IF res.ok THEN 0 ELSE consecutive[target] + 1)
                      ELSE IF target = model
                      THEN consecutive[target] + 1
                      ELSE IF target = adapters[Len(adapters)]
                      THEN (IF res.ok THEN 0 ELSE consecutive[target] + 1)
                      ELSE consecutive[target]]

(***************************************************************************)
(* DLPEngine used directly: scans between calls of add_custom_pattern.     *)
(***************************************************************************)
\* the longest text scanned, in tokens
MaxTextLen == 2

DlpTokens == {"hello", "email", "password", "ticket"}
DlpTexts == UNION {[1..n -> DlpTokens] : n \in 0..MaxTextLen}
\* the values of scan's mode parameter
Modes == {"block", "redact", "alert"}

NoDlpEv ==
    [kind |-> "none", text |-> NoText, mode |-> "", result |-> NoScan,
     name |-> ""]
NoRegistration == [set |-> FALSE, regex |-> "", block |-> FALSE]

DlpNew ==
    /\ engine = DLPEngineNew
    /\ dlp_ev = NoDlpEv
    /\ registered = [name \in CustomNames |-> NoRegistration]

\* one call of DLPEngine.scan
ScanCall ==
    /\ UNCHANGED <<breaker_vars, gateway_vars, limiter_vars, router_vars,
                   conc_vars, ws_vars,
                   registry_vars, server_vars>>
    /\ \E text \in DlpTexts, mode \in Modes :
           dlp_ev' = [kind |-> "scan", text |-> text, mode |-> mode,
                      result |-> Scan(engine, text, mode), name |-> ""]
    /\ UNCHANGED <<engine, registered>>

\* one call of DLPEngine.add_custom_pattern
AddCustomPatternCall ==
    /\ UNCHANGED <<breaker_vars, gateway_vars, limiter_vars, router_vars,
                   conc_vars, ws_vars,
                   registry_vars, server_vars>>
    /\ \E name \in CustomNames, pattern \in Regexes, block \in BOOLEAN :
           /\ engine' = AddCustomPattern(engine, name, pattern, block)
           /\ registered' = [registered EXCEPT ![name] =
                                [set |-> TRUE, regex |-> pattern, block |-> block]]
           /\ dlp_ev' = [kind |-> "add", text |-> NoText, mode |-> "",
                         result |-> NoScan, name |-> name]

(***************************************************************************)
(* The registry behind the circuit_breaker decorator.                      *)
(***************************************************************************)
\* f"{func.__module__}.{func.__name__}" of the functions decorated
BreakerKeys ==
    {"ec2_tools.list_instances", "ec2_tools.describe_instance",
     "ecs_tools.list_services"}

NoBreaker == [failure_threshold |-> 0, timeout |-> 0]
NoRegEv ==
    [key |-> "", failure_threshold |-> 0, timeout |-> 0, outcome |-> "none",
     held |-> NoBreaker]

RegistryNew ==
    /\ circuit_breakers = [key \in BreakerKeys |-> NoBreaker]
    /\ reg_ev = NoRegEv

\* circuit_breaker(failure_threshold, timeout)(func): the registry after the
\* decorator is applied to a function of that key
Register(registry, breaker_key, threshold, tmo) ==
    IF registry[breaker_key] = NoBreaker
    THEN [registry EXCEPT ![breaker_key] =
             [failure_threshold |-> threshold, timeout |-> tmo]]
    ELSE registry

\* one application of the decorator; it returns breaker.call(func) whether
\* it created the breaker or found one
Decorate ==
    /\ UNCHANGED <<breaker_vars, gateway_vars, limiter_vars, router_vars,
                   conc_vars, ws_vars,
                   dlp_vars, server_vars>>
    /\ \E key \in BreakerKeys, threshold \in 1..MaxThreshold,
          tmo \in 1..MaxTimeout :
           /\ circuit_breakers' = Register(circuit_breakers, key, threshold, tmo)
           /\ reg_ev' = [key |-> key, failure_threshold |-> threshold,
                         timeout |-> tmo,
                         outcome |-> IF circuit_breakers[key] = NoBreaker
                                     THEN "created" ELSE "reused",
                         held |-> circuit_breakers[key]]

(***************************************************************************)
(* MCPServer.handle_request                                                *)
(***************************************************************************)
\* A tool name is the sequence of its pieces, "." being a piece of its own.
\* request_data["id"]: absent, a string or a number; request_data["method"]
\* ("" when absent); request_data["params"]: absent, {}, a dictionary with
\* no "name", or one with a "name".
RequestIds ==
    {[type |-> "null", value |-> ""], [type |-> "string", value |-> "req-1"],
     [type |-> "number", value |-> "1"]}
Methods == {"", "tools/list", "tools/call", "initialize", "resources/list"}
ToolNames ==
    { <<>>, <<"ec2_list_instances">>, <<"s3", ".", "list_buckets">>,
      <<"ec2", ".", "terminate">>, <<"ec2", ".", "list_instances">>,
      <<"ec2", ".", "list", ".", "instances">> }
RequestParams ==
    {[kind |-> k, name |-> <<>>] : k \in {"None", "empty", "no_name"}}
        \cup {[kind |-> "named", name |-> n] : n \in ToolNames}
Requests ==
    [id : RequestIds, method : Methods, params : RequestParams]
\* what awaiting the tool operation can do: return its result, raise, or
\* raise CircuitBreakerError because its breaker is Open
ToolOutcomes == {"returned", "raised", "breaker_open"}

\* self.tools and the operation_map of each tool class
operation_map ==
    [category \in {"ec2", "ecs", "rds", "cloudwatch"} |->
        CASE category = "ec2" ->
                 {"list_instances", "describe_instance", "start_instance",
                  "stop_instance"}
          [] category = "ecs" ->
                 {"list_clusters", "list_services", "describe_service",
                  "scale_service"}
          [] category = "rds" ->
                 {"describe_instances", "get_instance_status",
                  "create_snapshot", "list_snapshots"}
          [] OTHER ->
                 {"get_metric_data", "list_alarms", "describe_alarm",
                  "put_metric_alarm"}]

\* pydantic's validation of an Optional[str] field
ValidOptionalStr(v) == v.type \in {"null", "string"}

\* MCPRequest(**request_data): method is required, id is Optional[str]
ValidRequest(request_data) ==
    request_data.method # "" /\ ValidOptionalStr(request_data.id)

NoError == [code |-> 0, message |-> ""]
\* MCPResponse(result=..., error=..., id=...): the response, or the
\* ValidationError the constructor raises on an id that is not a string
MCPResponse(result, error, id) ==
    IF ValidOptionalStr(id)
    THEN [kind |-> "response", result |-> result, error |-> error, id |-> id]
    ELSE [kind |-> "raised", result |-> "None", error |-> NoError, id |-> id]

\* "." in tool_name
HasDot(tool_name) == \E i \in 1..Len(tool_name) : tool_name[i] = "."

\* tool_name.split(".", 1): the pieces before the first "." and after it
Split(tool_name) ==
    LET k == CHOOSE k \in 1..Len(tool_name) :
                 tool_name[k] = "." /\ \A j \in 1..(k - 1) : tool_name[j] # "."
    IN  [category |-> SubSeq(tool_name, 1, k - 1),
         operation |-> SubSeq(tool_name, k + 1, Len(tool_name))]

\* category in self.tools
KnownCategory(category) == \E c \in DOMAIN operation_map : category = <<c>>

\* operation in operation_map, in the execute of the category's tool class
KnownOperation(category, operation) ==
    \E c \in DOMAIN operation_map :
        category = <<c>> /\ \E op \in operation_map[c] : operation = <<op>>

\* MCPServer.call_tool and the execute it awaits: "" when the tool
\* operation returned, the message of the exception otherwise
CallTool(tool_name, outcome) ==
    IF ~HasDot(tool_name) THEN "Invalid tool name format"
    ELSE IF ~KnownCategory(Split(tool_name).category)
    THEN "Unknown tool category"
    ELSE IF ~KnownOperation(Split(tool_name).category,
                            Split(tool_name).operation)
    THEN "Unknown operation"
    ELSE IF outcome = "raised" THEN "tool exception"
    ELSE IF outcome = "breaker_open" THEN "Circuit breaker is OPEN"
    ELSE ""

\* whether call_tool reaches the await of the tool operation
ReachesTool(request_data) ==
    /\ ValidRequest(request_data)
    /\ request_data.method = "tools/call"
    /\ request_data.params.kind = "named"
    /\ request_data.params.name # <<>>
    /\ HasDot(request_data.params.name)
    /\ KnownOperation(Split(request_data.params.name).category,
                      Split(request_data.params.name).operation)

\* the message of the exception the try block of handle_request raises,
\* "" when it returns a response
Failure(request_data, outcome) ==
    IF ~ValidRequest(request_data) THEN "validation error"
    ELSE IF request_data.method \in {"tools/list", "initialize"} THEN ""
    ELSE IF request_data.method # "tools/call" THEN "Unknown method"
    ELSE IF request_data.params.kind \in {"None", "empty"}
    THEN "Missing parameters for tools/call"
    ELSE IF request_data.params.kind = "no_name" \/ request_data.params.name = <<>>
    THEN "Missing 'name' in parameters"
    ELSE CallTool(request_data.params.name, outcome)

\* MCPServer.handle_request: the response returned, or what it raised
HandleRequestOf(request_data, outcome) ==
    IF Failure(request_data, outcome) = ""
    THEN MCPResponse(CASE request_data.method = "tools/list" -> "tools"
                       [] request_data.method = "initialize" -> "server_info"
                       [] OTHER -> "tool_result",
                     NoError, request_data.id)
    ELSE MCPResponse("None",
                     [code |-> -32603,
                      message |-> Failure(request_data, outcome)],
                     request_data.id)

NoRpc ==
    [kind |-> "none",
     request |-> [id |-> [type |-> "null", value |-> ""], method |-> "",
                  params |-> [kind |-> "None", name |-> <<>>]],
     called |-> "-",
     outcome |-> [kind |-> "none", result |-> "None", error |-> NoError,
                  id |-> [type |-> "null", value |-> ""]]]

ServerNew == rpc = NoRpc

\* one request handled from its arrival to its response
HandleRequest ==
    /\ UNCHANGED <<breaker_vars, gateway_vars, limiter_vars, router_vars,
                   conc_vars, ws_vars,
                   dlp_vars, registry_vars>>
    /\ \E request_data \in Requests, outcome \in ToolOutcomes :
           rpc' = [kind |-> "handled", request |-> request_data,
                   called |-> IF ReachesTool(request_data) THEN outcome ELSE "-",
                   outcome |-> HandleRequestOf(request_data, outcome)]

(***************************************************************************)
(* Concurrent check_limit calls of one user: each call is a coroutine      *)
(* that is suspended at every Redis command.                               *)
(***************************************************************************)
\* check_limit, lines 75, 87, 101: the window of a key
WindowSeconds(key) ==
    CASE key = "user_minute" -> MinuteWindow
      [] key = "tenant_hour" -> HourWindow
      [] OTHER -> DayWindow

\* check_limit, lines 77, 89-90, 103: the limit of a key
Limit(key) ==
    CASE key = "user_minute" -> requests_per_minute
      [] key = "tenant_hour" -> requests_per_hour * TenantFactor
      [] OTHER -> tokens_per_day

\* the increment check_limit passes for a key
IncrementOf(key, tokens) == IF key = "user_tokens_day" THEN tokens ELSE 1

\* an INCR that answers the new value and does not store it
IncrLost(st, key, increment) ==
    [store |-> st, current |-> st[key].count + increment]

\* redis_client.incr(key, increment): one atomic command of Redis
Incr(st, key, increment) ==
    [store |-> [st EXCEPT ![key].count = @ + increment],
     current |-> st[key].count + increment]

\* redis_client.expire(key, window_seconds)
Expire(st, key, window_seconds) == [st EXCEPT ![key].ttl = window_seconds]

Idling == [at |-> "idle", key |-> ""]
NoCounts == [user_minute |-> -1, tenant_hour |-> -1, user_tokens_day |-> -1]

\* check_limit after _increment_counter returned value for key: where the
\* coroutine goes next and what it returns
AfterCount(key, value, tokens) ==
    IF Exceeds(value, Limit(key))
    THEN [lpc |-> [at |-> "done", key |-> ""], verdict |-> "rejected"]
    ELSE IF key = "user_minute"
    THEN [lpc |-> [at |-> "incr", key |-> "tenant_hour"], verdict |-> "-"]
    ELSE IF key = "tenant_hour" /\ tokens > 0
    THEN [lpc |-> [at |-> "incr", key |-> "user_tokens_day"], verdict |-> "-"]
    ELSE [lpc |-> [at |-> "done", key |-> ""], verdict |-> "allowed"]

\* callers that have not called yet
ConcNew ==
    /\ lpc = [c \in Callers |-> Idling]
    /\ ltokens = [c \in Callers |-> 0]
    /\ counts = [c \in Callers |-> NoCounts]
    /\ verdict = [c \in Callers |-> "-"]
    /\ window_base = 0
    /\ redis_fault = FALSE

\* check_limit is called and runs to its first Redis command
BeginCheck(c) ==
    /\ UNCHANGED <<breaker_vars, limiter_vars, router_vars, dlp_vars,
                   registry_vars, server_vars, ws_vars>>
    /\ lpc[c] = Idling
    /\ \E tokens \in TokenAmounts : ltokens' = [ltokens EXCEPT ![c] = tokens]
    /\ lpc' = [lpc EXCEPT ![c] = [at |-> "incr", key |-> "user_minute"]]
    /\ UNCHANGED <<counts, verdict, window_base, redis_fault>>
    /\ UNCHANGED gateway_vars

\* _increment_counter, line 138, and what follows up to the next Redis
\* command: INCR answers; when its value equals the increment the coroutine
\* is suspended again in EXPIRE, otherwise the value is returned and
\* check_limit compares it. An INCR that raises returns 0 (lines 146-149).
IncrStep(c) ==
    /\ UNCHANGED <<breaker_vars, limiter_vars, router_vars, dlp_vars,
                   registry_vars, server_vars, ws_vars>>
    /\ lpc[c].at = "incr"
    /\ LET key == lpc[c].key
           increment == IncrementOf(key, ltokens[c])
           r == Incr(store, key, increment)
       IN  \E redis_ok \in BOOLEAN :
             IF redis_ok
             THEN /\ store' = r.store
                  /\ counts' = [counts EXCEPT ![c][key] = r.current]
                  /\ IF r.current = increment
                     THEN /\ lpc' = [lpc EXCEPT ![c] = [at |-> "expire", key |-> key]]
                          /\ UNCHANGED verdict
                     ELSE /\ lpc' = [lpc EXCEPT ![c] =
                                        AfterCount(key, r.current, ltokens[c]).lpc]
                          /\ verdict' = [verdict EXCEPT ![c] =
                                            AfterCount(key, r.current, ltokens[c]).verdict]
                  /\ UNCHANGED redis_fault
             ELSE /\ UNCHANGED store
                  /\ counts' = [counts EXCEPT ![c][key] = 0]
                  /\ lpc' = [lpc EXCEPT ![c] = AfterCount(key, 0, ltokens[c]).lpc]
                  /\ verdict' = [verdict EXCEPT ![c] =
                                    AfterCount(key, 0, ltokens[c]).verdict]
                  /\ redis_fault' = TRUE
    /\ UNCHANGED <<ltokens, window_base>>
    /\ UNCHANGED <<pc, request, is_allowed, rate_info, is_authorized,
                   dlp_result, model_response, response_dlp, http, body,
                   stages, forwarded, rate_trace, oracle, audit_trail>>

\* _increment_counter, lines 141-149: EXPIRE answers and current is
\* returned, or EXPIRE raises and 0 is returned
ExpireStep(c) ==
    /\ UNCHANGED <<breaker_vars, limiter_vars, router_vars, dlp_vars,
                   registry_vars, server_vars, ws_vars>>
    /\ lpc[c].at = "expire"
    /\ LET key == lpc[c].key
       IN  \E redis_ok \in BOOLEAN :
             LET value == IF redis_ok THEN counts[c][key] ELSE 0
             IN  /\ store' = IF redis_ok
                             THEN Expire(store, key, WindowSeconds(key))
                             ELSE store
                 /\ counts' = [counts EXCEPT ![c][key] = value]
                 /\ lpc' = [lpc EXCEPT ![c] = AfterCount(key, value, ltokens[c]).lpc]
                 /\ verdict' = [verdict EXCEPT ![c] =
                                   AfterCount(key, value, ltokens[c]).verdict]
                 /\ redis_fault' = (redis_fault \/ ~redis_ok)
    /\ UNCHANGED <<ltokens, window_base>>
    /\ UNCHANGED <<pc, request, is_allowed, rate_info, is_authorized,
                   dlp_result, model_response, response_dlp, http, body,
                   stages, forwarded, rate_trace, oracle, audit_trail>>

(***************************************************************************)
(* Automation hub: ConnectionManager and websocket_endpoint.               *)
(***************************************************************************)
\* the WebSocket connections made in a behaviour
NSockets == 3

Sockets == 1..NSockets
WsUsers == {"alice", "bob"}
NoSocket == 0
NewSocket == [status |-> "new", user_id |-> ""]

\* ConnectionManager.__init__, and no client connected yet
WsNew ==
    /\ sockets = [s \in Sockets |-> NewSocket]
    /\ active_connections = [u \in WsUsers |-> NoSocket]

\* a client opens /ws/{user_id}: websocket_endpoint starts and is suspended
\* in `await websocket.accept()` (line 262)
WsConnect(s) ==
    /\ UNCHANGED <<breaker_vars, gateway_vars, limiter_vars, router_vars,
                   dlp_vars, registry_vars, server_vars, conc_vars>>
    /\ sockets[s].status = "new"
    /\ \E user_id \in WsUsers :
           sockets' = [sockets EXCEPT ![s] =
                          [status |-> "accepting", user_id |-> user_id]]
    /\ UNCHANGED active_connections

\* ConnectionManager.connect, lines 263-264: the socket is accepted and
\* registered under its user, replacing the entry the user had; the
\* endpoint then waits in receive_json
WsAccepted(s) ==
    /\ UNCHANGED <<breaker_vars, gateway_vars, limiter_vars, router_vars,
                   dlp_vars, registry_vars, server_vars, conc_vars>>
    /\ sockets[s].status = "accepting"
    /\ sockets' = [sockets EXCEPT ![s].status = "open"]
    /\ active_connections' =
           [active_connections EXCEPT ![sockets[s].user_id] = s]

\* ConnectionManager.disconnect: the entry of the user is deleted
Disconnect(connections, user_id) ==
    [connections EXCEPT ![user_id] = NoSocket]

\* the client of an open socket goes away: receive_json raises
\* WebSocketDisconnect and the endpoint calls manager.disconnect(user_id)
\* (lines 332-333)
WsDisconnect(s) ==
    /\ UNCHANGED <<breaker_vars, gateway_vars, limiter_vars, router_vars,
                   dlp_vars, registry_vars, server_vars, conc_vars>>
    /\ sockets[s].status = "open"
    /\ sockets' = [sockets EXCEPT ![s].status = "closed"]
    /\ active_connections' = Disconnect(active_connections, sockets[s].user_id)

\* the endpoint of an open socket ends in another exception (receive_json
\* on a frame that is not JSON raises a decoding error): only
\* WebSocketDisconnect is caught, so nothing is unregistered and the socket
\* is closed by the server
WsHandlerError(s) ==
    /\ UNCHANGED <<breaker_vars, gateway_vars, limiter_vars, router_vars,
                   dlp_vars, registry_vars, server_vars, conc_vars>>
    /\ sockets[s].status = "open"
    /\ sockets' = [sockets EXCEPT ![s].status = "closed"]
    /\ UNCHANGED active_connections

UnitsNew == DlpNew /\ RegistryNew /\ ServerNew /\ ConcNew /\ WsNew

(***************************************************************************)
(* Specifications. The breaker and the gateway are separate programs: each *)
(* specification runs one and leaves the other as constructed.             *)
(***************************************************************************)
vars == <<breaker_vars, gateway_vars, limiter_vars, router_vars, unit_vars>>

\* the gateway on a store whose minute window has one request left or none
\* and whose hour window is unused or used up, beside a breaker constructed with the defaults of circuit_breaker()
\* that nothing calls
Init ==
    /\ GatewayInit({requests_per_minute - 1, requests_per_minute},
                   {0, requests_per_hour * TenantFactor})
    /\ BreakerNew(5, 60)
    /\ now = 0
    /\ pc_call = [p \in Callers |-> "idle"]
    /\ admitted = [p \in Callers |-> "-"]
    /\ streak = 0
    /\ ev = NoEvent
    /\ audited = <<>>
    /\ UnitsNew
    /\ LimiterNew
    /\ RouterNew

Next ==
    \/ \E r \in Reqs : Receive(r)
    \/ \E r \in Reqs : RateLimitStep(r)
    \/ \E r \in Reqs : PolicyStep(r)
    \/ \E r \in Reqs : InboundScanStep(r)
    \/ \E r \in Reqs : RouteStep(r)
    \/ \E r \in Reqs : OutboundScanStep(r)
    \/ \E r \in Reqs : AuditStep(r)
    \/ \E r \in Reqs : Cancel(r)

Spec == Init /\ [][Next]_vars

\* a breaker constructed with some threshold and timeout, beside a gateway
\* that receives nothing
BreakerInit ==
    /\ \E threshold \in 1..MaxThreshold, tmo \in 1..MaxTimeout :
           BreakerNew(threshold, tmo)
    /\ now = 0
    /\ pc_call = [p \in Callers |-> "idle"]
    /\ admitted = [p \in Callers |-> "-"]
    /\ streak = 0
    /\ ev = NoEvent
    /\ audited = <<>>
    /\ UnitsNew
    /\ GatewayInit({0}, {0})
    /\ LimiterNew
    /\ RouterNew

BreakerNext ==
    \/ \E p \in Callers : WrapperReject(p)
    \/ \E p \in Callers : WrapperEnter(p)
    \/ \E p \in Callers : WrapperSuccess(p)
    \/ \E p \in Callers : WrapperFailure(p)
    \/ \E p \in Callers : WrapperCancelled(p)
    \/ Tick

BreakerSpec == BreakerInit /\ [][BreakerNext]_vars

\* the time from which the wrapped function succeeds: late enough for
\* failures to open the breaker, early enough for the longest timeout to
\* elapse on the clock
HealTime == MaxTime - MaxTimeout

\* the wrapped function raises only before HealTime
WrapperFailureBeforeHeal(p) == now < HealTime /\ WrapperFailure(p)

BreakerLiveNext ==
    \/ \E p \in Callers : WrapperReject(p)
    \/ \E p \in Callers : WrapperEnter(p)
    \/ \E p \in Callers : WrapperSuccess(p)
    \/ \E p \in Callers : WrapperFailureBeforeHeal(p)
    \/ \E p \in Callers : WrapperCancelled(p)
    \/ Tick

\* time passes, callers keep attempting calls, and a call of the healed
\* function that is not cancelled returns
BreakerFairness ==
    /\ WF_vars(Tick)
    /\ WF_vars(\E p \in Callers : WrapperEnter(p))
    /\ SF_vars(\E p \in Callers : WrapperSuccess(p))

\* the breaker of BreakerSpec around a function that recovers, with callers
\* that keep calling
BreakerLiveSpec == BreakerInit /\ [][BreakerLiveNext]_vars /\ BreakerFairness

\* the rate limiter called directly, on a store whose minute and hour
\* windows are unused or have one request left
LimiterInit ==
    /\ GatewayInit({0, requests_per_minute - 1},
                   {0, requests_per_hour * TenantFactor - 1})
    /\ LimiterNew
    /\ RouterNew
    /\ BreakerNew(5, 60)
    /\ now = 0
    /\ pc_call = [p \in Callers |-> "idle"]
    /\ admitted = [p \in Callers |-> "-"]
    /\ streak = 0
    /\ ev = NoEvent
    /\ audited = <<>>
    /\ UnitsNew

LimiterNext ==
    \/ CheckLimitCall
    \/ Elapse
    \/ ResetLimits

LimiterSpec == LimiterInit /\ [][LimiterNext]_vars

\* the model router called directly
RouterInit ==
    /\ RouterNew
    /\ LimiterNew
    /\ GatewayInit({0}, {0})
    /\ BreakerNew(5, 60)
    /\ now = 0
    /\ pc_call = [p \in Callers |-> "idle"]
    /\ admitted = [p \in Callers |-> "-"]
    /\ streak = 0
    /\ ev = NoEvent
    /\ audited = <<>>
    /\ UnitsNew

RouterNext == RouteCall

RouterSpec == RouterInit /\ [][RouterNext]_vars

\* everything but the named component as constructed
IdleBreaker ==
    /\ BreakerNew(5, 60)
    /\ now = 0
    /\ pc_call = [p \in Callers |-> "idle"]
    /\ admitted = [p \in Callers |-> "-"]
    /\ streak = 0
    /\ ev = NoEvent
    /\ audited = <<>>
Idle == IdleBreaker /\ GatewayInit({0}, {0}) /\ LimiterNew /\ RouterNew

\* a DLP engine scanning while patterns are added to it
DlpInit == Idle /\ UnitsNew
DlpNext == ScanCall \/ AddCustomPatternCall
DlpSpec == DlpInit /\ [][DlpNext]_vars

\* the decorator applied to the functions of a process, one after the other
RegistryInit == Idle /\ UnitsNew
RegistryNext == Decorate
RegistrySpec == RegistryInit /\ [][RegistryNext]_vars

\* the MCP server handling one request after the other
ServerInit == Idle /\ UnitsNew
ServerNext == HandleRequest
ServerSpec == ServerInit /\ [][ServerNext]_vars

\* two coroutines of check_limit for one user, on a store whose minute
\* window is unused, has one request left or is used up
ConcInit ==
    /\ IdleBreaker /\ LimiterNew /\ RouterNew
    /\ GatewayInit({0, requests_per_minute - 1, requests_per_minute}, {0})
    /\ DlpNew /\ RegistryNew /\ ServerNew /\ WsNew
    /\ lpc = [c \in Callers |-> Idling]
    /\ ltokens = [c \in Callers |-> 0]
    /\ counts = [c \in Callers |-> NoCounts]
    /\ verdict = [c \in Callers |-> "-"]
    /\ window_base = store["user_minute"].count
    /\ redis_fault = FALSE
ConcNext ==
    \/ \E c \in Callers : BeginCheck(c)
    \/ \E c \in Callers : IncrStep(c)
    \/ \E c \in Callers : ExpireStep(c)
ConcSpec == ConcInit /\ [][ConcNext]_vars

\* the WebSocket endpoint serving clients that connect and go away
WsInit == Idle /\ UnitsNew
WsNext ==
    \/ \E s \in Sockets : WsConnect(s)
    \/ \E s \in Sockets : WsAccepted(s)
    \/ \E s \in Sockets : WsDisconnect(s)
    \/ \E s \in Sockets : WsHandlerError(s)
WsSpec == WsInit /\ [][WsNext]_vars

(***************************************************************************)
(* Circuit breaker: claims C2 - C8.                                        *)
(***************************************************************************)
InFlight == {p \in Callers : pc_call[p] = "calling"}

\* the step completes the call of p with a return (resp. a raise) of func
Returns(p) == pc_call[p] = "calling" /\ pc_call'[p] = "idle" /\ ev'.kind = "returned"
Raises(p) == pc_call[p] = "calling" /\ pc_call'[p] = "idle" /\ ev'.kind = "raised"
\* the step is a call attempt: the entry check of the wrapper ran
Attempt == ev'.kind \in {"entered", "rejected"}

\* C2: starting Closed with failure count 0, while fewer than failure_threshold
\* calls have raised (and nothing else completed) the breaker is Closed and
\* counts them; the raise that makes them failure_threshold leaves the
\* breaker Open with failure_count = failure_threshold.
C2_OpensAtThreshold ==
    /\ streak \in 0..(failure_threshold - 1)
          => state = "CLOSED" /\ failure_count = streak
    /\ streak = failure_threshold /\ ev.kind = "raised"
          => state = "OPEN" /\ failure_count = failure_threshold

C2_Witness ==
    /\ failure_threshold >= 2
    /\ streak = failure_threshold
    /\ ev.kind = "raised" /\ ev.from = "CLOSED" /\ ev.to = "OPEN"

\* C3: while the breaker is Open and less than timeout has elapsed since
\* last_failure_time, a call attempt is rejected and no caller starts the
\* wrapped function.
C3_OpenRejects ==
    [][(state = "OPEN" /\ now - last_failure_time < timeout)
          => /\ \A p \in Callers : pc_call[p] = "idle" => pc_call'[p] = "idle"
             /\ Attempt => ev'.kind = "rejected"]_vars

C3_Witness ==
    /\ ev.kind = "rejected"
    /\ state = "OPEN" /\ now - last_failure_time < timeout
    /\ now > 0

\* C4: a call attempted while Open with now - last_failure_time >= timeout
\* moves the breaker to HalfOpen and invokes the wrapped function, and when
\* that trial call returns the breaker becomes Closed with failure count 0.
C4_TrialSuccessCloses ==
    [][/\ (state = "OPEN" /\ now - last_failure_time >= timeout /\ Attempt)
             => state' = "HALF_OPEN" /\ ev'.kind = "entered"
       /\ \A p \in Callers : (admitted[p] = "TRIAL" /\ Returns(p))
             => state' = "CLOSED" /\ failure_count' = 0]_vars

\* C5: a successful call made while the breaker is Closed resets the failure
\* count to 0.
C5_SuccessResetsCount ==
    [][\A p \in Callers : (state = "CLOSED" /\ Returns(p))
          => failure_count' = 0]_vars

\* C6: of the calls let through once the open timeout elapsed (the trial and
\* the callers arriving while the breaker is HalfOpen) at most one is in
\* flight.
C6_SingleTrial ==
    Cardinality({p \in InFlight : admitted[p] \in {"TRIAL", "HALF_OPEN"}}) <= 1

\* C7: when the trial call admitted in HalfOpen raises, the breaker is Open
\* again and last_failure_time is the time of that failure.
C7_TrialFailureReopens ==
    [][\A p \in Callers : (admitted[p] = "TRIAL" /\ Raises(p))
          => state' = "OPEN" /\ last_failure_time' = now]_vars

\* C8: the state changes only along Closed->Open, Open->HalfOpen,
\* HalfOpen->Closed and HalfOpen->Open, under every interleaving of the calls.
AllowedTransitions ==
    { <<"CLOSED", "OPEN">>, <<"OPEN", "HALF_OPEN">>,
      <<"HALF_OPEN", "CLOSED">>, <<"HALF_OPEN", "OPEN">> }

C8_TransitionGraph ==
    [][state' # state => <<state, state'>> \in AllowedTransitions]_vars

\* a call admitted while Closed returns after the breaker opened and went
\* HalfOpen, and closes it
C8_Witness ==
    /\ ev.kind = "returned" /\ ev.adm = "CLOSED"
    /\ ev.from = "HALF_OPEN" /\ ev.to = "CLOSED"
    /\ InFlight # {}

(***************************************************************************)
(* Chat pipeline: claims C1, C9, C10.                                      *)
(***************************************************************************)
StageOrder == <<"rate_limit", "policy", "dlp_in", "route", "dlp_out", "audit">>

IsPrefix(q, t) == Len(q) <= Len(t) /\ \A i \in 1..Len(q) : q[i] = t[i]

RanStage(r, stage) == \E i \in 1..Len(stages[r]) : stages[r][i] = stage

\* C1: the component calls of a request are made in the order rate limit,
\* policy, inbound scan, route, outbound scan, audit; a stage runs only when
\* the stage before it passed, a rejected request is over with the status
\* of the rejecting stage and nothing ran after it.
C1_StageOrder ==
    \A r \in Reqs :
        /\ IsPrefix(stages[r], StageOrder)
        /\ RanStage(r, "policy") => is_allowed[r]
        /\ RanStage(r, "dlp_in") => is_allowed[r] /\ is_authorized[r]
        /\ RanStage(r, "route") =>
               is_allowed[r] /\ is_authorized[r] /\ ~dlp_result[r].blocked
        /\ (RanStage(r, "rate_limit") /\ ~is_allowed[r]) =>
               pc[r] = "done" /\ http[r] = 429 /\ stages[r] = <<"rate_limit">>
        /\ (RanStage(r, "policy") /\ ~is_authorized[r]) =>
               pc[r] = "done" /\ http[r] = 403
                   /\ stages[r] = <<"rate_limit", "policy">>
        /\ http[r] # 0 => pc[r] = "done"

\* a request that passed the rate limit and was denied by policy
C1_Witness ==
    \E r \in Reqs :
        /\ pc[r] = "done" /\ http[r] = 403
        /\ is_allowed[r] /\ ~is_authorized[r]

AuditEntriesOf(r) ==
    {i \in 1..Len(audit_trail) : audit_trail[i].request = r}

\* C9: a chat request that is over, whichever stage ended it, has exactly
\* one audit entry.
C9_OneAuditEntry ==
    \A r \in Reqs : pc[r] = "done" => Cardinality(AuditEntriesOf(r)) = 1

\* the inbound payload matches a pattern of the blocking set
HasCredential(r) ==
    \E name \in block_patterns : PatternMatches(name, Join(request[r].messages))

\* C10: a chat request whose inbound payload matches a blocking-set pattern
\* is never handed to the router and, once scanned, ends with HTTP 400.
C10_CredentialBlocked ==
    \A r \in Reqs :
        (pc[r] # "idle" /\ HasCredential(r)) =>
            /\ ~RanStage(r, "route")
            /\ (pc[r] = "done" /\ RanStage(r, "dlp_in")) => http[r] = 400

(***************************************************************************)
(* Chat pipeline: claims C11, C13, C15, C19.                               *)
(***************************************************************************)
\* the inbound scan of r detected something (a pattern or an entity)
InboundDetections(r) ==
    dlp_result[r].violations # <<>> \/ dlp_result[r].pii_detected

\* C11: when the inbound scan has detections and the request is not
\* blocked, the content handed to the router is the redacted payload, not
\* the content as it came in.
C11_RedactedForwarded ==
    \A r \in Reqs :
        (RanStage(r, "route") /\ InboundDetections(r)) =>
            /\ Join(forwarded[r]) = dlp_result[r].redacted_text
            /\ Join(forwarded[r]) # Join(request[r].messages)

\* the step is the rate-limit step of request r
RateLimited(r) == pc[r] = "rate_limit" /\ pc'[r] # "rate_limit"

UserCount(st) == st["user_minute"].count
TenantCount(st) == st["tenant_hour"].count

\* C13: with per-minute limit L, a check_limit call that makes the count of
\* the window n <= L is not rejected for the minute scope and, when
\* allowed, sends its request on to policy evaluation; the call that makes
\* it L + 1 is rejected with retry_after = 60 and its request ends with 429
\* before the policy evaluator is called.
C13_MinuteLimit ==
    [][\A r \in Reqs :
          (RateLimited(r) /\ UserCount(store') = UserCount(store) + 1) =>
              LET n == UserCount(store')
              IN  /\ n <= requests_per_minute =>
                        \/ is_allowed'[r] /\ pc'[r] = "policy"
                        \/ ~is_allowed'[r] /\ rate_info'[r].retry_after # 60
                  /\ n = requests_per_minute + 1 =>
                        /\ ~is_allowed'[r]
                        /\ rate_info'[r].retry_after = 60
                        /\ rate_info'[r].current = n
                        /\ http'[r] = 429 /\ pc'[r] = "done"
                        /\ stages'[r] = <<"rate_limit">>]_vars

\* the request that makes the count L + 1 is over with 429
C13_Witness ==
    \E r \in Reqs :
        /\ pc[r] = "done" /\ http[r] = 429
        /\ rate_info[r].retry_after = 60
        /\ rate_info[r].current = requests_per_minute + 1
        /\ UserCount(store) = requests_per_minute + 1

\* C15: a chat request the rate-limit stage admitted has been checked
\* against the minute, the hour and the daily token quota.
C15_AllQuotasChecked ==
    \A r \in Reqs :
        (RanStage(r, "rate_limit") /\ is_allowed[r]) =>
            rate_trace[r] = <<"user_minute", "tenant_hour", "user_tokens_day">>

C19_NoRollback ==
    [][/\ (\A r \in Reqs : ~RateLimited(r)) => store' = store
       /\ \A r \in Reqs : RateLimited(r) =>
            /\ \A key \in StoreKeys : store'[key].count >= store[key].count
            /\ (is_allowed'[r] /\ rate_info'[r].user_requests > 0) =>
                   /\ UserCount(store') = UserCount(store) + 1
                   /\ rate_info'[r].user_requests = UserCount(store')
            /\ (is_allowed'[r] /\ rate_info'[r].tenant_requests > 0) =>
                   /\ TenantCount(store') = TenantCount(store) + 1
                   /\ rate_info'[r].tenant_requests = TenantCount(store')
            /\ (~is_allowed'[r] /\ rate_info'[r].retry_after = 60) =>
                   UserCount(store') = UserCount(store) + 1
            /\ (~is_allowed'[r] /\ rate_info'[r].retry_after = 3600) =>
                   TenantCount(store') = TenantCount(store) + 1]_vars

\* a request admitted by the rate limiter was cancelled in the model call,
\* and both counters hold its increment
C19_Witness ==
    \E r \in Reqs :
        /\ pc[r] = "cancelled" /\ RanStage(r, "dlp_in")
        /\ rate_info[r].user_requests = UserCount(store)
        /\ rate_info[r].tenant_requests = TenantCount(store)
        /\ UserCount(store) = requests_per_minute /\ TenantCount(store) = 1

(***************************************************************************)
(* Rate limiter: claims C14, C16, C18, C20.                                *)
(***************************************************************************)
ScopeOrder == <<"user_minute", "tenant_hour", "user_tokens_day">>

\* the limit and the window of a scope
LimitOf(key) ==
    CASE key = "user_minute" -> 100
      [] key = "tenant_hour" -> 10000
      [] OTHER -> 100000

WindowOf(key) ==
    CASE key = "user_minute" -> 60
      [] key = "tenant_hour" -> 3600
      [] OTHER -> 86400

\* the step is a direct call of check_limit
Called == ncalls' = ncalls + 1

\* C14: check_limit takes the scopes in the order user-minute, tenant-hour,
\* user-tokens-day and stops at the first one violated: the rejection
\* reports the limit, the count and the retry_after (60, 3600, 86400) of
\* that scope, and the counters of the scopes after it are not incremented.
C14_ScopeOrder ==
    [][Called =>
          LET sc == lim_ev'.scopes
              last == sc[Len(sc)]
          IN  /\ Len(sc) >= 1 /\ IsPrefix(sc, ScopeOrder)
              /\ \A key \in StoreKeys \ SeqToSet(sc) : store'[key] = store[key]
              /\ \A i \in 1..(Len(sc) - 1) :
                     lim_ev'.redis[i] = "ok" =>
                         store'[sc[i]].count <= LimitOf(sc[i])
              /\ ~decision'.allowed =>
                     /\ decision'.info.retry_after = WindowOf(last)
                     /\ decision'.info.limit = LimitOf(last)
                     /\ decision'.info.current = store'[last].count
                     /\ decision'.info.current > LimitOf(last)
              /\ decision'.allowed =>
                     Len(sc) = (IF lim_ev'.tokens > 0 THEN 3 ELSE 2)]_vars

\* a call with tokens rejected for the tenant scope: the token counter was
\* not touched
C14_Witness ==
    /\ lim_ev.kind = "check_limit" /\ lim_ev.tokens > 0
    /\ lim_ev.scopes = <<"user_minute", "tenant_hour">>
    /\ ~decision.allowed /\ decision.info.retry_after = 3600
    /\ store["user_tokens_day"].count = 0

\* C16: when the store is unreachable (every increment raises) check_limit
\* returns allowed; a rejection is never the result of a store failure: the
\* increment of the rejecting scope succeeded and its count is over the
\* limit.
C16_FailOpen ==
    [][Called =>
          LET sc == lim_ev'.scopes
              last == sc[Len(sc)]
          IN  /\ (\A i \in 1..Len(sc) : lim_ev'.redis[i] = "incr_fails") =>
                     decision'.allowed /\ store' = store
              /\ ~decision'.allowed =>
                     /\ lim_ev'.redis[Len(sc)] # "incr_fails"
                     /\ store'[last].count = store[last].count
                            + (IF last = "user_tokens_day"
                               THEN lim_ev'.tokens ELSE 1)
                     /\ store'[last].count > LimitOf(last)]_vars

\* a call allowed on an unreachable store although the minute limit is used
\* up
C16_Witness ==
    /\ lim_ev.kind = "check_limit"
    /\ lim_ev.redis = <<"incr_fails", "incr_fails">>
    /\ decision.allowed
    /\ UserCount(store) >= requests_per_minute

\* the count check_limit returned for a key in an allowed decision
ReturnedCount(info, key) ==
    CASE key = "user_minute" -> info.user_requests
      [] key = "tenant_hour" -> info.tenant_requests
      [] OTHER -> info.tokens_used

Lowered(key) == store'[key].count < store[key].count

\* the step is the expiry of key
Expires(key) ==
    lim_ev'.kind = "elapse" /\ store[key].ttl > 0 /\ store'[key].count = 0

\* C20 as stated: the count of a key goes down only by the expiry of its
\* window; no operation of the rate limiter lowers or deletes a counter.
C20_OnlyExpiryLowers ==
    [][\A key \in StoreKeys : Lowered(key) => Expires(key)]_vars

\* C20: the count of a key goes down only to zero, by the expiry of its
\* window or by reset_limits, which deletes the keys of the user (minute
\* and tokens-day) and never the key of the tenant; check_limit never
\* lowers a counter.
C20_ExpiryOrReset ==
    [][\A key \in StoreKeys :
          Lowered(key) =>
              \/ Expires(key)
              \/ /\ lim_ev'.kind = "reset_limits"
                 /\ key \in {"user_minute", "user_tokens_day"}
                 /\ store'[key] = [count |-> 0, ttl |-> 0]]_vars

\* reset_limits deleted the minute key of the user inside its window and
\* left the key of the tenant
C20_Witness ==
    /\ lim_ev.kind = "reset_limits"
    /\ lim_ev.scopes = <<"user_minute">>
    /\ UserCount(store) = 0
    /\ TenantCount(store) > 0

(***************************************************************************)
(* Model router: claim C12.                                                *)
(***************************************************************************)
\* the step is a call of route
Dispatched == dispatch' # dispatch \/ consecutive' # consecutive

\* C12: a dispatch to a target whose adapter has failed 5 times in a row
\* (the failure threshold of its breaker) fails with the circuit-open error
\* and calls no adapter.
C12_BreakerGuardsDispatch ==
    [][\A target \in RouterModels :
          (consecutive[target] >= 5 /\ Dispatched /\ dispatch'.model = target)
              => dispatch'.adapters = <<>> /\ ~dispatch'.ok]_vars

\* C21: a dispatch to a target that has an adapter calls that adapter and,
\* when that fails and the target is not gpt-3.5-turbo, the adapter of
\* gpt-3.5-turbo once and nothing after it: at most two adapter calls, and
\* a dispatch that fails has failed in the default target.
C21_SingleFallback ==
    AdapterOf(dispatch.model) # "none" =>
        LET adapters == dispatch.adapters
            primary_failed == ~dispatch.ok \/ dispatch.served # dispatch.model
        IN  /\ Len(adapters) \in {1, 2}
            /\ adapters[1] = dispatch.model
            /\ Len(adapters) = 2 <=>
                   (primary_failed /\ dispatch.model # "gpt-3.5-turbo")
            /\ Len(adapters) = 2 => adapters[2] = "gpt-3.5-turbo"
            /\ ~dispatch.ok =>
                   /\ adapters[Len(adapters)] = "gpt-3.5-turbo"
                   /\ consecutive["gpt-3.5-turbo"] >= 1

\* a dispatch to gpt-4 that failed there and in the fallback
C21_Witness ==
    /\ dispatch.model = "gpt-4" /\ ~dispatch.ok
    /\ dispatch.adapters = <<"gpt-4", "gpt-3.5-turbo">>

\* the price entry of a target, USD per 1M tokens times 10
PriceOf(target) ==
    CASE target = "claude-3-sonnet" -> <<30, 150>>
      [] target = "gpt-4" -> <<300, 600>>
      [] target = "gpt-3.5-turbo" -> <<5, 15>>
      [] OTHER -> <<0, 0>>

\* C28: the result of a dispatch names the target whose adapter served it
\* and carries the cost of that target's prices for the tokens it used,
\* also when the fallback served it.
C28_CostOfServingTarget ==
    (dispatch.model # "" /\ dispatch.ok) =>
        LET last == dispatch.adapters[Len(dispatch.adapters)]
            usage == UsageOf(dispatch.content)
        IN  /\ dispatch.served = last
            /\ dispatch.cost = usage.input_tokens * PriceOf(last)[1]
                                   + usage.output_tokens * PriceOf(last)[2]

\* the fallback served a dispatch to gpt-4
C28_Witness ==
    /\ dispatch.model = "gpt-4" /\ dispatch.ok
    /\ dispatch.served = "gpt-3.5-turbo"
    /\ dispatch.content = <<"hello", "email">>
    /\ dispatch.cost = 20 * 5 + 2 * 15

\* C22: a request whose dispatch failed (the adapter and, where there is
\* one, the fallback raised) ends with the upstream outcome, HTTP 502 or
\* 503, and not with the internal-error status 500.
C22_UpstreamOutcome ==
    \A r \in Reqs :
        (pc[r] = "done" /\ stages[r] # <<>>
             /\ stages[r][Len(stages[r])] = "route") =>
            http[r] \in {502, 503}

C26_EveryAttemptAudited ==
    ev.kind \in {"rejected", "returned", "raised"} => Len(audited) >= 1

\* C27: an invocation of the audited operation that is over has written
\* exactly one audit record; the record of a call that raised or was
\* cancelled does not say success, and that of a cancelled call says
\* cancelled.
C27_OneRecordWithOutcome ==
    ev.kind \in {"returned", "raised", "cancelled"} =>
        /\ Len(audited) = 1
        /\ ev.kind # "returned" => audited[1] # "success"
        /\ ev.kind = "cancelled" => audited[1] = "cancelled"

\* a registered pattern of the blocking set matches the text
BlockingMatch(text) ==
    \E k \in 1..Len(engine.patterns) :
        /\ PatternMatches(engine.patterns[k].regex, text)
        /\ engine.patterns[k].name \in engine.block_patterns

C29_LatestRegistrationDecides ==
    dlp_ev.kind = "scan" =>
        \A name \in CustomNames : registered[name].set =>
            /\ (\E k \in 1..Len(dlp_ev.result.violations) :
                    dlp_ev.result.violations[k] = name)
                   <=> PatternMatches(registered[name].regex, dlp_ev.text)
            /\ dlp_ev.mode = "block" /\ dlp_ev.result.violations = <<name>>
                   => (dlp_ev.result.blocked <=> registered[name].block)

\* C25: applying the decorator to a key that already has a breaker, with a
\* different failure_threshold or timeout, is rejected.
C25_ReRegistrationRejected ==
    /\ reg_ev.outcome # "none"
    /\ reg_ev.held # NoBreaker
    /\ \/ reg_ev.failure_threshold # reg_ev.held.failure_threshold
       \/ reg_ev.timeout # reg_ev.held.timeout
    => /\ reg_ev.outcome = "rejected"
       /\ circuit_breakers[reg_ev.key] = reg_ev.held

\* the try block of the handled request ended in an exception
Failed(r) ==
    \/ ~ValidRequest(r.request)
    \/ r.request.method \notin {"tools/list", "tools/call", "initialize"}
    \/ r.request.method = "tools/call" /\ r.called # "returned"

\* C30: handle_request never raises: it returns one response that carries
\* the request's id and exactly one of result and error, and every failure
\* gives an error response with code -32603.
C30_AlwaysResponds ==
    rpc.kind = "handled" =>
        /\ rpc.outcome.kind = "response"
        /\ rpc.outcome.id = rpc.request.id
        /\ rpc.outcome.result # "None" <=> rpc.outcome.error = NoError
        /\ Failed(rpc) => rpc.outcome.error.code = -32603

\* C33: a call rejected because the breaker is Open leaves state, failure
\* count and last_failure_time as they were, so rejections never extend the
\* open period.
C33_RejectChangesNothing ==
    [][\A p \in Callers :
          (pc_call[p] = "idle" /\ pc_call'[p] = "idle" /\ ev'.kind = "rejected"
              /\ now' = now)
          => /\ state' = state
             /\ failure_count' = failure_count
             /\ last_failure_time' = last_failure_time]_vars

\* a call is rejected after time has passed since the failure that opened
\* the breaker
C33_Witness ==
    /\ ev.kind = "rejected" /\ ev.exc = "CircuitBreakerError"
    /\ state = "OPEN" /\ failure_count >= failure_threshold
    /\ now > last_failure_time

\* C32: under every interleaving of concurrent guarded calls, the breaker is
\* Open or HalfOpen only with failure_count >= failure_threshold, and while
\* it is Closed failure_count < failure_threshold.
C32_StateMatchesCount ==
    /\ state \in {"OPEN", "HALF_OPEN"} => failure_count >= failure_threshold
    /\ state = "CLOSED" => failure_count < failure_threshold

\* two calls are in flight in a HalfOpen breaker
C32_Witness ==
    /\ state = "HALF_OPEN" /\ failure_count >= failure_threshold
    /\ Cardinality(InFlight) = 2

\* C31: recovery is always possible: when callers keep attempting guarded
\* calls and the wrapped function succeeds from some point on, a breaker that
\* is Open or HalfOpen eventually is Closed again.
C31_Recovers == (state # "CLOSED") ~> (state = "CLOSED")

\* the breaker opened and a call returning after the open period closed it
C31_Witness ==
    /\ state = "CLOSED" /\ failure_count = 0
    /\ ev.kind = "returned" /\ ev.from = "HALF_OPEN" /\ ev.adm = "TRIAL"
    /\ now >= HealTime

\* C35: every counter key present in the store has an expiry, whatever
\* check_limit calls and store failures came before.
C35_CountersExpire ==
    \A key \in StoreKeys : store[key].count > 0 => store[key].ttl > 0

\* the callers whose INCR of the user's minute key was answered
Counted == {c \in Callers : counts[c]["user_minute"] > 0}

\* C34: with Redis reachable, under every interleaving of concurrent
\* check_limit calls of one user in one window, no increment is lost, no two
\* calls see the same count, and the calls allowed in the window are at most
\* requests_per_minute.
C34_AtMostLimitAllowed ==
    ~redis_fault =>
        /\ \A c1, c2 \in Counted :
               c1 # c2 => counts[c1]["user_minute"] # counts[c2]["user_minute"]
        /\ store["user_minute"].count = window_base + Cardinality(Counted)
        /\ window_base + Cardinality({c \in Callers : verdict[c] = "allowed"})
               <= requests_per_minute

\* a call takes the last request of the window and, while it is suspended
\* in its next Redis command, a second call is rejected
C34_Witness ==
    /\ ~redis_fault
    /\ \E c1, c2 \in Callers :
         /\ lpc[c1] = [at |-> "incr", key |-> "tenant_hour"]
         /\ counts[c1]["user_minute"] = requests_per_minute
         /\ verdict[c2] = "rejected"
         /\ counts[c2]["user_minute"] = requests_per_minute + 1

\* the open sockets of a user
OpenSockets(u) ==
    {s \in Sockets : sockets[s].status = "open" /\ sockets[s].user_id = u}

\* C39: after any interleaving of connects and disconnects, a user with an
\* open WebSocket has an entry in active_connections that is an open socket
\* of theirs, and no entry is a closed socket.
C39_RegistrationFollowsSockets ==
    \A u \in WsUsers :
        /\ OpenSockets(u) # {} => active_connections[u] \in OpenSockets(u)
        /\ active_connections[u] # NoSocket
               => sockets[active_connections[u]].status # "closed"

\* the outbound scan of r found a regex pattern match or a classifier entity
OutboundMatch(r) ==
    response_dlp[r].violations # <<>> \/ response_dlp[r].pii_entities # {}

\* C36: whenever the outbound scan finds a match, a regex pattern or a
\* classifier entity, the response returned is the redacted payload and not
\* the raw model output; the outbound scan never blocks the response.
C36_OutboundRedacted ==
    \A r \in Reqs :
        /\ pc[r] = "done" /\ http[r] = 200 /\ OutboundMatch(r)
              => /\ body[r] = response_dlp[r].redacted_text
                 /\ body[r] # model_response[r].content
        /\ RanStage(r, "dlp_out") /\ pc[r] = "done" => http[r] = 200

\* C37: a dispatch to a target that has no adapter fails with an error for
\* the caller and calls no adapter.
C37_UnknownTargetFails ==
    (dispatch.model # "" /\ AdapterOf(dispatch.model) = "none")
        => ~dispatch.ok /\ dispatch.adapters = <<>>

\* C38: the model named in the response of an answered request, and in its
\* audit entry, is the model whose adapter served it, also when that is the
\* fallback.
C38_ServingModelNamed ==
    \A r \in Reqs :
        (pc[r] = "done" /\ http[r] = 200) =>
            /\ ChatResponseModel(r) = model_response[r].model
            /\ \A i \in 1..Len(audit_trail) :
                   audit_trail[i].request = r
                       => audit_trail[i].model = model_response[r].model

====
